---- MODULE Spec2Model ----
(***************************************************************************)
(* StackedLstmPolicy (btgym/research/policy_stacked_lstm.py).              *)
(*                                                                         *)
(* Three specifications over one set of variables:                        *)
(*   Spec        - construction of the graph (__init__), evaluation of    *)
(*                 the on-policy outputs at the level of tensor shapes,   *)
(*                 and use of the auxiliary outputs / callbacks;          *)
(*   SpecReshape - the two tf.reshape calls applied to a tensor of        *)
(*                 distinct elements;                                     *)
(*   SpecSeq     - evaluation at the level of values, with the recurrent  *)
(*                 state threaded between evaluations by the caller.      *)
(***************************************************************************)
EXTENDS Integers, Sequences, FiniteSets, TLC

VARIABLES
    \* ---- constructor arguments (lines 19-26) and prior object state
    ob_space,          \* modality name -> per-sample shape
    on_aac_x_static,   \* per-sample static shape of the encoder output
    ac_space,
    lstm_class,
    lstm_layers,
    aux_estimate,
    train_phase0,      \* self.train_phase as it was before line 208
    \* ---- the object after __init__
    pc,                \* "new" | "built"
    attrs,             \* names of the attributes set on self
    callback,          \* self.callback, a set of <<key, value>> pairs
    train_phase,       \* self.train_phase
    graph,             \* the tensors __init__ builds, as widths and structures
    \* ---- evaluation of on_logits / on_vf / on_lstm_state_out (shapes)
    run,
    \* ---- an attempt to use an auxiliary output or callback
    aux_use,
    \* ---- SpecReshape
    rs,
    \* ---- SpecSeq
    sq

vars == <<ob_space, on_aac_x_static, ac_space, lstm_class, lstm_layers,
          aux_estimate, train_phase0, pc, attrs, callback, train_phase,
          graph, run, aux_use, rs, sq>>

cfgVars == <<ob_space, on_aac_x_static, ac_space, lstm_class, lstm_layers,
             aux_estimate, train_phase0>>
objVars == <<pc, attrs, callback, train_phase, graph>>

-----------------------------------------------------------------------------
\* Bounds of the model.

MaxN == 10            \* rows fed to the observation placeholders: 1..MaxN
MaxBatch == 4         \* values fed to on_batch_size: 0..MaxBatch
MaxTime == 3          \* values fed to on_time_length: 1..MaxTime

ActionSpaces == {2, 4}
LayerSizes == {8, 16}
LstmClasses == {"BasicLSTMCell", "GRUCell"}
ConvOutShapes == {<<3, 1, 2>>}
ObSpaces ==
    { [m \in {"external"} |-> <<4, 1, 3>>],
      [m \in {"external", "internal"} |->
          IF m = "external" THEN <<4, 1, 3>> ELSE <<2, 1>>] }

-----------------------------------------------------------------------------
\* Helpers.

RECURSIVE Prod(_)
\* np.prod of a shape, multiplied left to right
Prod(s) == IF s = <<>> THEN 1 ELSE Prod(SubSeq(s, 1, Len(s) - 1)) * s[Len(s)]

RECURSIVE SumWidths(_)
\* feature width of tf.concat(inputs, axis=-1)
SumWidths(s) ==
    IF s = <<>> THEN 0 ELSE SumWidths(SubSeq(s, 1, Len(s) - 1)) + s[Len(s)].w

IntMax == 2147483647
IntMin == (-IntMax) - 1

\* tf.cast(float64, tf.int32) of a non-finite value is undefined: the builds
\* produce the smallest int32, the largest int32, or 0 (and -1 is kept as the
\* one negative value tf.reshape treats specially).
CastUndefined == {IntMin, -1, 0, IntMax}

\* line 83: x_shape_dynamic[0] / on_batch_size is a true division of two
\* int32 tensors in float64, cast back to int32 (truncation).  n >= 0, b >= 0.
TrueDivCast(n, b, undef) == IF b = 0 THEN undef ELSE n \div b

ReshapeOkMut(n, shape) ==
    /\ Cardinality({i \in DOMAIN shape : shape[i] = -1}) <= 1
    /\ \A i \in DOMAIN shape : shape[i] >= -1
\* tf.reshape(tensor with n elements, shape): does the op accept it
ReshapeOk(n, shape) ==
    LET unknown == {i \in DOMAIN shape : shape[i] = -1}
        known   == [i \in DOMAIN shape |-> IF shape[i] = -1 THEN 1 ELSE shape[i]]
    IN  /\ Cardinality(unknown) <= 1
        /\ \A i \in DOMAIN shape : shape[i] >= -1
        /\ IF unknown = {}
           THEN Prod(known) = n
           ELSE Prod(known) > 0 /\ n % Prod(known) = 0

-----------------------------------------------------------------------------
\* Collaborators of the constructor.

\* rnn_placeholders / flatten_nested of the state of one layer of lstm_class:
\* an LSTM cell keeps a pair (c, h), a GRU cell a single tensor.
StateParts(class) == IF class = "BasicLSTMCell" THEN <<"c", "h">> ELSE <<"h">>

\* lstm_network(x, lstm_sequence_length, lstm_class, lstm_layers, name):
\* (output sequence, initial state, final state, flattened placeholders)
\* of a stack of cells, here always a stack of one.
lstm_network(x_width, sequence_length, class, layers, name) ==
    [ in_width  |-> x_width,
      time_arg  |-> sequence_length,
      out_width |-> layers[Len(layers)],
      init_state |-> [scope |-> name, kind |-> "init_state", units |-> layers],
      state_out  |-> [scope |-> name, kind |-> "state_out", units |-> layers],
      state_pl_flatten |->
          [k \in 1..(Len(layers) * Len(StateParts(class))) |->
              LET l == ((k - 1) \div Len(StateParts(class))) + 1
                  p == ((k - 1) % Len(StateParts(class))) + 1
              IN  [scope |-> name, layer |-> l,
                   part |-> StateParts(class)[p], units |-> layers[l]]] ]

\* dense_aac_network(x, ac_space): logits [M, ac_space], value [M], sample [M]
dense_aac_network(x_width, ac) ==
    [in_width |-> x_width, logits_width |-> ac]

-----------------------------------------------------------------------------
\* StackedLstmPolicy.__init__, piece by piece.

\* line 128: "if False: # Temp. disable"
AuxBranchEnabledMut == TRUE
AuxBranchEnabled == FALSE

\* attributes assigned on self outside the disabled branch
BaseAttrs ==
    {"ob_space", "ac_space", "rp_sequence_size", "lstm_class", "lstm_layers",
     "aux_estimate", "callback", "on_state_in", "off_state_in", "rp_state_in",
     "on_a_r_in", "off_a_r_in", "on_batch_size", "on_time_length",
     "off_batch_size", "off_time_length",
     "on_lstm_1_init_state", "on_lstm_1_state_out", "on_lstm_1_state_pl_flatten",
     "on_lstm_2_init_state", "on_lstm_2_state_out", "on_lstm_2_state_pl_flatten",
     "on_logits", "on_vf", "on_sample",
     "on_lstm_init_state", "on_lstm_state_out", "on_lstm_state_pl_flatten",
     "update_ops", "var_list"}

\* attributes assigned on self inside the disabled branch (lines 130-205)
AuxBranchAttrs ==
    {"off_lstm_state_pl_flatten", "off_logits", "off_vf",
     "pc_change_state_in", "pc_change_last_state_in", "pc_target",
     "pc_batch_size", "pc_time_length", "pc_state_in", "pc_a_r_in",
     "pc_lstm_state_pl_flatten", "pc_q",
     "vr_batch_size", "vr_time_length", "vr_state_in", "vr_a_r_in",
     "vr_lstm_state_pl_flatten", "vr_value",
     "rp_batch_size", "rp_logits"}

\* line 90
on_stage2_1_input(x_static, ac) ==
    << [t |-> "on_aac_x", w |-> Prod(x_static)],
       [t |-> "on_a_r_in", w |-> ac + 1] >>

on_stage2_2_inputMut(lstm_1_out_width, stage1, obs) ==
    << [t |-> "on_x_lstm_1_out", w |-> lstm_1_out_width] >>
    \o (IF "internal" \in DOMAIN obs
        THEN << [t |-> "x_int", w |-> Prod(obs["internal"])] >>
        ELSE << >>)
\* lines 99-107
on_stage2_2_input(lstm_1_out_width, stage1, obs) ==
    << [t |-> "on_x_lstm_1_out", w |-> lstm_1_out_width] >>
    \o stage1
    \o (IF "internal" \in DOMAIN obs
        THEN << [t |-> "x_int", w |-> Prod(obs["internal"])] >>
        ELSE << >>)

\* line 95: the layer sizes handed to lstm_1
lstm_1_layers(layers) == << layers[1] >>

lstm_2_layersMut(layers) == << layers[1] >>
\* line 112: the layer sizes handed to lstm_2
lstm_2_layers(layers) == << layers[Len(layers)] >>

\* lines 95, 112: the sequence length handed to both layers is the
\* on_time_length placeholder, not max_seq_len
lstm_time_argMut(on_time_length, max_seq_len) == max_seq_len
lstm_time_arg(on_time_length, max_seq_len) == on_time_length

\* line 123
on_lstm_init_state(s1, s2) == <<s1, s2>>

on_lstm_state_outMut(s1, s2) == <<s2, s1>>
\* line 124
on_lstm_state_out(s1, s2) == <<s1, s2>>

on_lstm_state_pl_flattenMut(l1, l2) == l2 \o l1
\* line 125
on_lstm_state_pl_flatten(l1, l2) == l1 \o l2

\* lines 208-217: the attribute read raises inside try when the attribute
\* is absent, and only then is the placeholder created
train_phase_after(tp0) ==
    IF tp0 = "ABSENT" THEN "placeholder_with_default(False)" ELSE tp0

\* lines 59, 228-229
callback_after(aux) ==
    IF aux THEN { <<"pixel_change", "get_pc_target">> } ELSE {}

\* lines 79-125: the on-policy network
BuildGraph(obs, x_static, ac, class, layers) ==
    LET stage1 == on_stage2_1_input(x_static, ac)
        l1 == lstm_network(SumWidths(stage1), "on_time_length", class,
                           lstm_1_layers(layers), "lstm_1")
        stage2 == on_stage2_2_input(l1.out_width, stage1, obs)
        l2 == lstm_network(SumWidths(stage2), "on_time_length", class,
                           lstm_2_layers(layers), "lstm_2")
    IN  [ on_stage2_1_input |-> stage1,
          lstm_1 |-> l1,
          on_stage2_2_input |-> stage2,
          lstm_2 |-> l2,
          head |-> dense_aac_network(l2.out_width, ac),
          on_lstm_init_state |-> on_lstm_init_state(l1.init_state, l2.init_state),
          on_lstm_state_out |-> on_lstm_state_out(l1.state_out, l2.state_out),
          on_lstm_state_pl_flatten |->
              on_lstm_state_pl_flatten(l1.state_pl_flatten, l2.state_pl_flatten) ]

NoGraph == [ on_stage2_1_input |-> << >> ]

NoRun ==
    [ status |-> "none", N |-> 0, on_batch_size |-> 0, on_time_length |-> 0,
      max_seq_len |-> 0, lstm_1_time |-> 0, lstm_2_time |-> 0,
      logits_shape |-> << >>, vf_shape |-> << >>,
      state_1_units |-> 0, state_2_units |-> 0 ]

NoUse == [ target |-> "none", outcome |-> "none" ]

Construct ==
    /\ pc = "new"
    /\ pc' = "built"
    /\ graph' = BuildGraph(ob_space, on_aac_x_static, ac_space, lstm_class,
                           lstm_layers)
    /\ train_phase' = train_phase_after(train_phase0)
    /\ callback' = callback_after(aux_estimate)
    /\ attrs' = BaseAttrs \cup {"train_phase"}
                \cup (IF AuxBranchEnabled THEN AuxBranchAttrs ELSE {})
    /\ UNCHANGED <<cfgVars, run, aux_use, rs, sq>>

-----------------------------------------------------------------------------
\* Evaluation of on_logits, on_vf and on_lstm_state_out: tensor shapes.
\* The feed gives every on-policy placeholder n rows, on_batch_size = b and
\* on_time_length = tl; undef is what the cast at line 83 yields when b = 0.

EvalShapes(g, obs, x_static, ac, n, b, tl, undef) ==
    LET max_seq_len == TrueDivCast(n, b, undef)
        F    == Prod(x_static)
        okAR == ReshapeOk(n * (ac + 1), <<b, max_seq_len, ac + 1>>)     \* line 86
        okX  == ReshapeOk(n * F, <<b, max_seq_len, F>>)                 \* line 87
        okI  == \/ "internal" \notin DOMAIN obs                          \* line 103
                \/ ReshapeOk(n * Prod(obs["internal"]),
                             <<b, max_seq_len, Prod(obs["internal"])>>)
        u2   == g.lstm_2.out_width
        okO  == ReshapeOk(b * max_seq_len * u2, <<n, u2>>)              \* line 117
    IN  IF okAR /\ okX /\ okI /\ okO
        THEN [ status |-> "ok", N |-> n, on_batch_size |-> b,
               on_time_length |-> tl, max_seq_len |-> max_seq_len,
               lstm_1_time |-> lstm_time_arg(tl, max_seq_len),
               lstm_2_time |-> lstm_time_arg(tl, max_seq_len),
               logits_shape |-> <<n, g.head.logits_width>>,             \* line 120
               vf_shape |-> <<n>>,
               state_1_units |-> g.on_lstm_state_out[1].units[1],
               state_2_units |-> g.on_lstm_state_out[2].units[1] ]
        ELSE [ status |-> "InvalidArgumentError", N |-> n, on_batch_size |-> b,
               on_time_length |-> tl, max_seq_len |-> max_seq_len,
               lstm_1_time |-> 0, lstm_2_time |-> 0,
               logits_shape |-> << >>, vf_shape |-> << >>,
               state_1_units |-> 0, state_2_units |-> 0 ]

\* An evaluation changes nothing in the object and its result depends on the
\* feed alone, so a behaviour holds one evaluation.
Evaluate ==
    /\ pc = "built"
    /\ run = NoRun
    /\ \E n \in 1..MaxN, b \in 0..MaxBatch, tl \in 1..MaxTime :
          \E undef \in (IF b = 0 THEN CastUndefined ELSE {0}) :
             run' = EvalShapes(graph, ob_space, on_aac_x_static, ac_space,
                               n, b, tl, undef)
    /\ UNCHANGED <<cfgVars, objVars, aux_use, rs, sq>>

-----------------------------------------------------------------------------
\* Use of the auxiliary outputs and of the callback registry by the caller.

AuxOutputs == {"off_logits", "off_vf", "pc_target", "pc_q", "vr_value", "rp_logits"}

AuxTasks == {"pixel_change", "value_replay", "reward_prediction"}

\* the tensors each auxiliary task is made of (lines 163-205)
TaskTensors(task) ==
    CASE task = "pixel_change" -> {"pc_target", "pc_q"}
      [] task = "value_replay" -> {"vr_value"}
      [] task = "reward_prediction" -> {"rp_logits"}

CallbackKeys(cb) == { p[1] : p \in cb }

\* getattr(policy, name)
UseAuxOutput ==
    /\ pc = "built"
    /\ aux_use = NoUse
    /\ \E name \in AuxOutputs :
          aux_use' = [ target |-> name,
                       outcome |-> IF name \in attrs THEN "tensor"
                                   ELSE "AttributeError" ]
    /\ UNCHANGED <<cfgVars, objVars, run, rs, sq>>

\* policy.callback[key]
UseCallback ==
    /\ pc = "built"
    /\ aux_use = NoUse
    /\ \E key \in AuxTasks :
          aux_use' = [ target |-> key,
                       outcome |-> IF key \in CallbackKeys(callback) THEN "callable"
                                   ELSE "KeyError" ]
    /\ UNCHANGED <<cfgVars, objVars, run, rs, sq>>

-----------------------------------------------------------------------------
RsIdle == [ stage |-> "idle" ]
SqIdle == [ stage |-> "idle" ]

TrainPhaseBefore == {"ABSENT", "None", "placeholder(bool)"}

Init ==
    /\ ob_space \in ObSpaces
    /\ on_aac_x_static \in ConvOutShapes
    /\ ac_space \in ActionSpaces
    /\ lstm_class \in LstmClasses
    /\ lstm_layers \in [1..2 -> LayerSizes]
    /\ aux_estimate \in BOOLEAN
    /\ train_phase0 \in TrainPhaseBefore
    /\ pc = "new"
    /\ attrs = IF train_phase0 = "ABSENT" THEN {} ELSE {"train_phase"}
    /\ callback = {}
    /\ train_phase = train_phase0
    /\ graph = NoGraph
    /\ run = NoRun
    /\ aux_use = NoUse
    /\ rs = RsIdle
    /\ sq = SqIdle

Next == Construct \/ Evaluate \/ UseAuxOutput \/ UseCallback

Spec == Init /\ [][Next]_vars

-----------------------------------------------------------------------------
\* Properties of Spec.

Built == pc = "built"
Ran == run.status # "none"
ExtWidth == Prod(on_aac_x_static)
IntWidth == IF "internal" \in DOMAIN ob_space THEN Prod(ob_space["internal"]) ELSE 0

\* C2: an evaluation whose row count N is not a multiple of on_batch_size, or
\* whose on_batch_size is 0, ends in a reported failure and yields no
\* logits and no value.
C2_NonMultipleFails ==
    (Ran /\ (IF run.on_batch_size = 0 THEN TRUE
             ELSE run.N % run.on_batch_size # 0))
    => /\ run.status = "InvalidArgumentError"
       /\ run.logits_shape = << >>
       /\ run.vf_shape = << >>

C2_Witness ==
    /\ run.status = "InvalidArgumentError"
    /\ run.N = 10
    /\ run.on_batch_size = 4

\* C4 as claimed: in every accepted evaluation the time length the two
\* recurrent layers are given is the derived N / on_batch_size.
C4_LayersUseDerivedTime ==
    run.status = "ok"
    => /\ run.lstm_1_time = run.max_seq_len
       /\ run.lstm_2_time = run.max_seq_len

\* C4 as amended: in every accepted evaluation the time length of the
\* reshapes is the derived one and N = on_batch_size * max_seq_len, while
\* both recurrent layers are given the value fed to on_time_length.
C4_LayersUseFedTime ==
    run.status = "ok"
    => /\ run.on_batch_size * run.max_seq_len = run.N
       /\ run.lstm_1_time = run.on_time_length
       /\ run.lstm_2_time = run.on_time_length

C4_Witness ==
    /\ run.status = "ok"
    /\ run.on_time_length # run.max_seq_len
    /\ run.lstm_1_time = run.on_time_length

\* C5: the input of lstm_1 is as wide as the external features plus
\* ac_space + 1; the input of lstm_2 is wider than that by the output
\* width of layer 1, and by the flattened internal width when the
\* 'internal' modality is present.
C5_ConcatWidths ==
    Built
    => /\ SumWidths(graph.on_stage2_1_input) = ExtWidth + (ac_space + 1)
       /\ graph.lstm_1.in_width = ExtWidth + (ac_space + 1)
       /\ graph.lstm_1.out_width = lstm_layers[1]
       /\ graph.lstm_2.in_width
            = lstm_layers[1] + ExtWidth + (ac_space + 1) + IntWidth

C5_Witness ==
    /\ Built
    /\ "internal" \notin DOMAIN ob_space
    /\ graph.lstm_2.in_width = lstm_layers[1] + ExtWidth + (ac_space + 1)

\* C6: the combined flattened placeholder list is layer 1's list followed
\* by layer 2's list, and the combined initial and final states are the
\* pairs (layer 1, layer 2).
C6_CombinedState ==
    Built
    => LET l1 == graph.lstm_1.state_pl_flatten
           l2 == graph.lstm_2.state_pl_flatten
           f  == graph.on_lstm_state_pl_flatten
       IN  /\ Len(f) = Len(l1) + Len(l2)
           /\ SubSeq(f, 1, Len(l1)) = l1
           /\ SubSeq(f, Len(l1) + 1, Len(f)) = l2
           /\ graph.on_lstm_init_state
                = <<graph.lstm_1.init_state, graph.lstm_2.init_state>>
           /\ graph.on_lstm_state_out
                = <<graph.lstm_1.state_out, graph.lstm_2.state_out>>

C6_Witness ==
    /\ Built
    /\ Len(graph.on_lstm_state_pl_flatten) = 4
    /\ graph.on_lstm_state_pl_flatten[1].scope = "lstm_1"
    /\ graph.on_lstm_state_pl_flatten[4].scope = "lstm_2"

\* the auxiliary tasks whose tensors the constructor built
EnabledTasks == { t \in AuxTasks : TaskTensors(t) \subseteq attrs }

\* C7: without aux_estimate the registry is empty; with it the registry
\* holds exactly the keys of the auxiliary tasks whose tensors were built.
C7_RegistryIsEnabledTasks ==
    Built
    => /\ (~aux_estimate) => callback = {}
       /\ aux_estimate => CallbackKeys(callback) = EnabledTasks

\* C8: an accepted evaluation yields logits [N, ac_space] and value [N];
\* the state of layer 1 is sized lstm_layers[0], that of layer 2
\* lstm_layers[1], and the two layers keep separate states.
C8_OutputShapes ==
    run.status = "ok"
    => /\ run.logits_shape = <<run.N, ac_space>>
       /\ run.vf_shape = <<run.N>>
       /\ run.state_1_units = lstm_layers[1]
       /\ run.state_2_units = lstm_layers[2]
       /\ graph.on_lstm_state_out[1].scope # graph.on_lstm_state_out[2].scope
       /\ \A i \in DOMAIN graph.lstm_1.state_pl_flatten :
             \A j \in DOMAIN graph.lstm_2.state_pl_flatten :
                graph.lstm_1.state_pl_flatten[i] # graph.lstm_2.state_pl_flatten[j]

C8_Witness ==
    /\ run.status = "ok"
    /\ ac_space = 4
    /\ lstm_layers = <<8, 16>>
    /\ run.on_batch_size = 2
    /\ run.max_seq_len = 3
    /\ run.logits_shape = <<6, 4>>
    /\ run.vf_shape = <<6>>
    /\ run.state_1_units = 8
    /\ run.state_2_units = 16

C10_TrainPhasePlaceholder ==
    Built
    => /\ train_phase0 \in {"ABSENT", "None"}
            => train_phase = "placeholder_with_default(False)"
       /\ train_phase0 = "placeholder(bool)" => train_phase = train_phase0

-----------------------------------------------------------------------------
\* SpecReshape: the reshapes of lines 87 and 117 on a tensor whose element
\* at row i, column j is the pair <<i, j>>.  Tensors are functions from
\* index tuples (1-based) to elements.

MaxRsBatch == 4
MaxRsTime == 4
MaxRsFeat == 3

\* all index tuples of a tensor of the given shape
Indices(shape) ==
    LET Widest == CHOOSE m \in {shape[i] : i \in DOMAIN shape} :
                     \A i \in DOMAIN shape : shape[i] <= m
    IN  { idx \in [DOMAIN shape -> 1..Widest] :
            \A i \in DOMAIN shape : idx[i] <= shape[i] }

RECURSIVE RowMajorIndexMut(_, _)
RowMajorIndexMut(idx, shape) ==
    IF idx = << >> THEN 0
    ELSE RowMajorIndexMut(Tail(idx), Tail(shape)) * shape[1] + (idx[1] - 1)

RECURSIVE RowMajorIndex(_, _)
\* position (0-based) of the element at idx in the buffer of a tensor
RowMajorIndex(idx, shape) ==
    IF idx = << >> THEN 0
    ELSE RowMajorIndex(SubSeq(idx, 1, Len(idx) - 1), SubSeq(shape, 1, Len(shape) - 1))
           * shape[Len(shape)] + (idx[Len(idx)] - 1)

\* index tuple of the element at position k (0-based) of the buffer
Unravel(k, shape) ==
    [ i \in DOMAIN shape |->
        ((k \div Prod(SubSeq(shape, i + 1, Len(shape)))) % shape[i]) + 1 ]

\* tf.reshape(x, new): same buffer, new shape
tf_reshape(x, old, new) ==
    [ idx \in Indices(new) |-> x[Unravel(RowMajorIndex(idx, new), old)] ]

InitReshape ==
    /\ ob_space \in { o \in ObSpaces : DOMAIN o = {"external"} }
    /\ on_aac_x_static \in ConvOutShapes
    /\ ac_space = 2
    /\ lstm_class = "BasicLSTMCell"
    /\ lstm_layers = <<8, 16>>
    /\ aux_estimate = FALSE
    /\ train_phase0 = "ABSENT"
    /\ pc = "new"
    /\ attrs = {}
    /\ callback = {}
    /\ train_phase = train_phase0
    /\ graph = NoGraph
    /\ run = NoRun
    /\ aux_use = NoUse
    /\ sq = SqIdle
    /\ \E b \in 1..MaxRsBatch, t \in 1..MaxRsTime, f \in 1..MaxRsFeat :
          rs = [ stage |-> "flat", batch_size |-> b, time_length |-> t,
                 feature_dim |-> f,
                 flat |-> [ idx \in Indices(<<b * t, f>>) |-> idx ],
                 batched |-> << >>,
                 flat_again |-> << >> ]

\* line 87: [N, F] -> [on_batch_size, max_seq_len, F]
ReshapeIn ==
    /\ rs.stage = "flat"
    /\ LET n == rs.batch_size * rs.time_length
           max_seq_len == TrueDivCast(n, rs.batch_size, 0)
           new == <<rs.batch_size, max_seq_len, rs.feature_dim>>
       IN  /\ ReshapeOk(n * rs.feature_dim, new)
           /\ rs' = [rs EXCEPT !.stage = "batched",
                               !.batched = tf_reshape(rs.flat, <<n, rs.feature_dim>>, new)]
    /\ UNCHANGED <<cfgVars, objVars, run, aux_use, sq>>

\* line 117: [on_batch_size, max_seq_len, F] -> [x_shape_dynamic[0], F]
ReshapeOut ==
    /\ rs.stage = "batched"
    /\ LET n == rs.batch_size * rs.time_length
           old == <<rs.batch_size, TrueDivCast(n, rs.batch_size, 0), rs.feature_dim>>
           new == <<n, rs.feature_dim>>
       IN  /\ ReshapeOk(Prod(old), new)
           /\ rs' = [rs EXCEPT !.stage = "flat_again",
                               !.flat_again = tf_reshape(rs.batched, old, new)]
    /\ UNCHANGED <<cfgVars, objVars, run, aux_use, sq>>

NextReshape == ReshapeIn \/ ReshapeOut

SpecReshape == InitReshape /\ [][NextReshape]_vars

\* C1: the [N, F] tensor reshaped to [batch_size, time_length, F] holds row
\* (b - 1) * time_length + t at [b, t], every element exactly once, and
\* the reshape back returns every element to its original row and column.
C1_ReshapeRoundTrip ==
    /\ rs.stage \in {"batched", "flat_again"}
         => /\ DOMAIN rs.batched
                 = Indices(<<rs.batch_size, rs.time_length, rs.feature_dim>>)
            /\ \A idx \in DOMAIN rs.batched :
                  rs.batched[idx]
                    = <<(idx[1] - 1) * rs.time_length + idx[2], idx[3]>>
    /\ rs.stage = "flat_again" => rs.flat_again = rs.flat

C1_Witness ==
    /\ rs.stage = "flat_again"
    /\ rs.batch_size = 2
    /\ rs.time_length = 3
    /\ rs.feature_dim = 2
    /\ rs.flat_again[<<4, 2>>] = <<4, 2>>
    /\ rs.batched[<<2, 1, 2>>] = <<4, 2>>

-----------------------------------------------------------------------------
\* SpecSeq: evaluation of on_logits, on_vf and on_lstm_state_out on values.
\* Every tensor has feature width 1 and values in 0..ValMod-1; the
\* collaborators are fixed deterministic functions of their inputs.

ValMod == 3
MaxSeqBatch == 2      \* sequences per evaluation: 1..MaxSeqBatch
MaxHalf == 2          \* steps in each half of a sequence: 1..MaxHalf
MaxSeqRows == 8       \* rows of the whole feed: on_batch_size * 2 * half

RowValues == { [external |-> 0, a_r |-> 1], [external |-> 1, a_r |-> 0] }

\* the fed initial states of (layer 1, layer 2): zero states, or other ones
InitStates == { << <<0, 0>>, <<0, 0>> >>, << <<1, 2>>, <<2, 0>> >> }

\* the values fed to on_time_length for a chunk of len steps: its length, or
\* one step short of it
SeqTimes(len) == { t \in {len - 1, len} : t >= 1 }

\* conv_2d_network: each row is encoded by itself
conv_2d_network(o) == (2 * o + 1) % ValMod

RECURSIVE Weighted(_)
\* the cell's view of a concatenated input: position-dependent weights
Weighted(v) ==
    IF v = << >> THEN 0
    ELSE (Weighted(SubSeq(v, 1, Len(v) - 1)) + Len(v) * v[Len(v)]) % ValMod

\* one step of a recurrent cell with state <<c, h>>; the output is the new h
Cell(layer, v, s) ==
    LET c == (2 * s[1] + Weighted(v) + s[2] + layer) % ValMod
        h == (c * c + Weighted(v) + 1) % ValMod
    IN  <<c, h>>

RECURSIVE RnnSteps(_, _, _, _, _)
\* tf.nn.dynamic_rnn over one sequence: steps 1..t of inputs xs from state s;
\* a step beyond sequence_length copies the state and outputs zero.
\* Returns [outputs, state].
RnnSteps(layer, xs, s, t, sequence_length) ==
    IF t = 0 THEN [outputs |-> << >>, state |-> s]
    ELSE LET prev == RnnSteps(layer, xs, s, t - 1, sequence_length)
         IN  IF t <= sequence_length
             THEN LET new == Cell(layer, xs[t], prev.state)
                  IN  [outputs |-> Append(prev.outputs, new[2]), state |-> new]
             ELSE [outputs |-> Append(prev.outputs, 0), state |-> prev.state]

\* a sequence given element by element, as one value
Seq1(s) == SubSeq(s, 1, Len(s))

\* lstm_network on values: inputs [b][t] -> vectors, init_state [b] -> state
lstm_network_run(layer, inputs, b, len, init_state, sequence_length) ==
    LET r == Seq1([bi \in 1..b |->
                 RnnSteps(layer, inputs[bi], init_state[bi], len, sequence_length)])
    IN  [ outputs |-> Seq1([bi \in 1..b |-> r[bi].outputs]),
          state_out |-> Seq1([bi \in 1..b |-> r[bi].state]) ]

\* dense_aac_network on values, row by row
dense_logits(x) == (x + 1) % ValMod
dense_vf(x) == (2 * x) % ValMod

NoResult == [ status |-> "none", on_time_length |-> 0, max_seq_len |-> 0,
              logits |-> << >>, vf |-> << >>, state_out |-> << >> ]

\* lines 79-124 on values.  rows: the N fed rows; init: the fed
\* on_lstm_init_state, a pair (layer 1, layer 2) of per-sequence states.
EvalValues(rows, b, tl, init) ==
    LET n == Len(rows)
        max_seq_len == TrueDivCast(n, b, 0)
        new == <<b, max_seq_len, 1>>
    IN  IF ~ReshapeOk(n, new) THEN [NoResult EXCEPT !.status = "InvalidArgumentError"]
        ELSE
        LET x2 == [idx \in Indices(<<n, 1>>) |-> conv_2d_network(rows[idx[1]].external)]
            a2 == [idx \in Indices(<<n, 1>>) |-> rows[idx[1]].a_r]
            a3 == tf_reshape(a2, <<n, 1>>, new)                          \* line 86
            x3 == tf_reshape(x2, <<n, 1>>, new)                          \* line 87
            in1 == Seq1([bi \in 1..b |-> Seq1([ti \in 1..max_seq_len |-> \* line 91
                       << x3[<<bi, ti, 1>>], a3[<<bi, ti, 1>>] >>])])
            l1 == lstm_network_run(1, in1, b, max_seq_len, init[1],      \* line 95
                                   lstm_time_arg(tl, max_seq_len))
            in2 == Seq1([bi \in 1..b |-> Seq1([ti \in 1..max_seq_len |-> \* line 109
                       << l1.outputs[bi][ti], x3[<<bi, ti, 1>>], a3[<<bi, ti, 1>>] >>])])
            l2 == lstm_network_run(2, in2, b, max_seq_len, init[2],      \* line 112
                                   lstm_time_arg(tl, max_seq_len))
            o3 == [idx \in Indices(new) |-> l2.outputs[idx[1]][idx[2]]]
            o2 == tf_reshape(o3, new, <<n, 1>>)                          \* line 117
        IN  [ status |-> "ok", on_time_length |-> tl, max_seq_len |-> max_seq_len,
              logits |-> Seq1([r \in 1..n |-> dense_logits(o2[<<r, 1>>])]), \* line 120
              vf |-> Seq1([r \in 1..n |-> dense_vf(o2[<<r, 1>>])]),
              state_out |-> on_lstm_state_out(l1.state_out, l2.state_out) ]

\* The caller's chunks: the rows of steps from+1..from+len of each of the b
\* sequences of a feed of b sequences of total steps each.
Chunk(rows, b, total, from, len) ==
    [ k \in 1..(b * len) |->
        rows[((k - 1) \div len) * total + from + ((k - 1) % len) + 1] ]

InitSeq ==
    /\ ob_space \in { o \in ObSpaces : DOMAIN o = {"external"} }
    /\ on_aac_x_static \in ConvOutShapes
    /\ ac_space = 2
    /\ lstm_class = "BasicLSTMCell"
    /\ lstm_layers = <<8, 16>>
    /\ aux_estimate = FALSE
    /\ train_phase0 = "ABSENT"
    /\ pc = "built"
    /\ attrs = BaseAttrs \cup {"train_phase"}
    /\ callback = callback_after(aux_estimate)
    /\ train_phase = train_phase_after(train_phase0)
    /\ graph = BuildGraph(ob_space, on_aac_x_static, ac_space, lstm_class, lstm_layers)
    /\ run = NoRun
    /\ aux_use = NoUse
    /\ rs = RsIdle
    /\ \E b \in 1..MaxSeqBatch, h \in 1..MaxHalf :
          /\ b * 2 * h <= MaxSeqRows
          /\ \E rows \in [1..(b * 2 * h) -> RowValues], s \in InitStates :
                sq = [ stage |-> "fed", on_batch_size |-> b, half |-> h,
                       rows |-> rows,
                       init |-> on_lstm_init_state([bi \in 1..b |-> s[1]],
                                                   [bi \in 1..b |-> s[2]]),
                       full |-> NoResult, first |-> NoResult, second |-> NoResult ]

\* one evaluation over the whole sequence
EvalFull ==
    /\ sq.stage = "fed"
    /\ sq.full = NoResult
    /\ \E tl \in SeqTimes(2 * sq.half) :
          sq' = [sq EXCEPT !.full = EvalValues(sq.rows, sq.on_batch_size, tl, sq.init)]
    /\ UNCHANGED <<cfgVars, objVars, run, aux_use, rs>>

\* evaluation of the first half of every sequence
EvalFirstHalf ==
    /\ sq.stage = "fed"
    /\ sq.first = NoResult
    /\ \E tl \in SeqTimes(sq.half) :
          sq' = [sq EXCEPT !.first =
                    EvalValues(Chunk(sq.rows, sq.on_batch_size, 2 * sq.half, 0, sq.half),
                               sq.on_batch_size, tl, sq.init)]
    /\ UNCHANGED <<cfgVars, objVars, run, aux_use, rs>>

\* evaluation of the second half, on_lstm_init_state fed with the first
\* half's on_lstm_state_out
EvalSecondHalf ==
    /\ sq.stage = "fed"
    /\ sq.first.status = "ok"
    /\ sq.second = NoResult
    /\ \E tl \in SeqTimes(sq.half) :
          sq' = [sq EXCEPT !.second =
                    EvalValues(Chunk(sq.rows, sq.on_batch_size, 2 * sq.half,
                                     sq.half, sq.half),
                               sq.on_batch_size, tl, sq.first.state_out)]
    /\ UNCHANGED <<cfgVars, objVars, run, aux_use, rs>>

NextSeq == EvalFull \/ EvalFirstHalf \/ EvalSecondHalf

SpecSeq == InitSeq /\ [][NextSeq]_vars

\* each of the three evaluations was fed an on_time_length covering its steps
SeqFedWholeChunks ==
    /\ sq.full.status = "ok" /\ sq.full.on_time_length >= sq.full.max_seq_len
    /\ sq.first.status = "ok" /\ sq.first.on_time_length >= sq.first.max_seq_len
    /\ sq.second.status = "ok" /\ sq.second.on_time_length >= sq.second.max_seq_len

====
